---- MODULE Spec2Model ----
(***************************************************************************)
(* Model of the Parquet scan operator of blaze                             *)
(* (native-engine/datafusion-ext-plans/src/parquet_exec.rs):               *)
(*   - ParquetFileReaderRef: get_bytes and get_metadata, with the          *)
(*     process-wide METADATA_CACHE table of (ObjectMeta, OnceCell) pairs;  *)
(*   - ParquetExec: new, properties, execute, statistics and the           *)
(*     per-partition stream driven by execute_parquet_scan.                *)
(***************************************************************************)
EXTENDS Integers, Sequences, FiniteSets, TLC

(***************************************************************************)
(* Bounds of the model.                                                    *)
(***************************************************************************)
NumReaders == 2
ByteReaders == 1
NumFiles == 2
ExtraFiles == 1
MaxCalls == 7
MaxReads == 3
MaxOffset == 2
NumPartitions == 2
NumScanFiles == 3
BatchesPerFile == 2
MaxDrops == 1
MaxExecutes == 2

(***************************************************************************)
(* Program constants.                                                      *)
(***************************************************************************)
METADATA_CACHE_SIZE == 5
FOOTER_SIZE == 8

Readers == 1..NumReaders
\* The readers of the specification of byte-range reads.
RangeReaders == 1..ByteReaders
Partitions == 1..NumPartitions
\* The files of the specification of concurrent readers: fewer than the
\* table holds.
Files == 1..NumFiles
\* The files of the specification of eviction: more than the table holds.
ManyFiles == 1..(METADATA_CACHE_SIZE + ExtraFiles)

\* The storage: of every three files, the last is too short to hold a footer,
FileSize(f) == IF f % 3 = 0 THEN FOOTER_SIZE - 1 ELSE FOOTER_SIZE + 4
\* the trailing 8 bytes of the first do not decode as a footer,
CorruptFooter(f) == f % 3 = 1
\* and the metadata length written in the footer of file f.
MetadataLen(f) == 1 + (f % 2)
\* Range<usize> values handed to get_bytes (start <= end).
Ranges == {r \in [start : 0..MaxOffset, end : 0..MaxOffset] : r.start <= r.end}

VARIABLES
    metadata_cache,  \* METADATA_CACHE: Vec<(ObjectMeta, ParquetMetaDataSlot)>
    lock,            \* holder of the table's Mutex, 0 when free
    rd,              \* the readers (one ParquetFileReaderRef per index)
    bytes_scanned,   \* ParquetFileMetrics.bytes_scanned of each reader
    issued,          \* history: sum of the lengths of the ranges requested
    used,            \* history: number of distinct files named so far
    calls,           \* history: number of calls counted against a bound
    \* ParquetExec and its environment
    phase,           \* "start" before ParquetExec::new, "constructed" after
    file_groups,     \* base_config.file_groups
    predicate,       \* the predicate handed to new, by what can be built of it
    pruning_predicate,
    page_pruning_predicate,
    num_predicate_creation_errors,
    props,           \* OnceCell<PlanProperties>: the partition count, if set
    ignore_corrupted,\* conf::IGNORE_CORRUPTED_FILES
    resolved,        \* number of JniBridge.getResource calls made, l.204
    part,            \* what execute(partition_index) made of each partition
    projected_statistics, \* ParquetExec.projected_statistics
    statistics_result     \* what the last call of statistics() returned

readers == <<metadata_cache, lock, rd, bytes_scanned, issued, used, calls>>
scan == <<phase, file_groups, predicate, pruning_predicate, page_pruning_predicate,
          num_predicate_creation_errors, props, ignore_corrupted, resolved, part,
          projected_statistics, statistics_result>>
vars == <<readers, scan>>

(***************************************************************************)
(* tokio::sync::OnceCell<Arc<ParquetMetaData>>.                            *)
(***************************************************************************)
NoFooter == 0
\* The parsed footer of file f.
Footer(f) == f
\* ParquetMetaDataSlot::default()
EmptyCell == [set |-> FALSE, value |-> NoFooter]
\* OnceCell::clone: a new cell holding a clone of the value, if any.  The
\* clone is a cell of its own: it does not share later initialisation.
OnceCellClone(c) == IF c.set THEN [set |-> TRUE, value |-> c.value] ELSE EmptyCell

NoResult == [kind |-> "none", footer |-> NoFooter]
NoReader ==
    [pc |-> "none", location |-> 0, size |-> 0, slot |-> EmptyCell,
     result |-> NoResult, bytes_result |-> "none",
     \* history: the reader's table entry is still in the table; it found the
     \* entry there (hit); another reader of the entry had then finished with a
     \* footer (after), or with an error (retry); it ran the fetch itself
     live |-> FALSE, hit |-> FALSE, after |-> FALSE, retry |-> FALSE,
     fetched |-> FALSE,
     \* history: how the last blocking read of the reader ended, and the number
     \* of futures of the reader that were dropped before they resolved
     last_read |-> "none", drops |-> 0]

\* No batch: nothing was pulled from the stream that is not yet sent.
NoBatch == <<>>

NoPartition ==
    [st |-> "none", on_error |-> "Fail", fstate |-> "Idle",
     idx |-> 0, pos |-> 0, batch |-> NoBatch, out |-> <<>>, hit |-> FALSE]

InitReaders ==
    /\ metadata_cache = <<>>
    /\ lock = 0
    /\ rd = [r \in Readers |-> NoReader]
    /\ bytes_scanned = [r \in Readers |-> 0]
    /\ issued = [r \in Readers |-> 0]
    /\ used = 0
    /\ calls = 0

\* No statistics: the plan is not constructed, statistics() was not called.
NoStatistics == <<>>

InitScan ==
    /\ phase = "start"
    /\ file_groups = <<>>
    /\ predicate = "none"
    /\ pruning_predicate = "None"
    /\ page_pruning_predicate = "None"
    /\ num_predicate_creation_errors = 0
    /\ props = 0
    /\ resolved = 0
    /\ part = [p \in Partitions |-> NoPartition]
    /\ projected_statistics = NoStatistics
    /\ statistics_result = NoStatistics

\* The readers' specifications leave the plan alone.
Init ==
    /\ InitReaders
    /\ InitScan
    /\ ignore_corrupted = FALSE

(***************************************************************************)
(* FsReaderFactory::create_reader                                          *)
(***************************************************************************)
\* What the factory does: a new reader of file f, with a ParquetFileMetrics
\* of its own; neither the table nor the file is touched.
Created(r, f) ==
    /\ rd[r].pc = "none"
    /\ rd' = [rd EXCEPT ![r] = [NoReader EXCEPT !.pc = "created", !.location = f,
                                                !.size = FileSize(f)]]
    /\ bytes_scanned' = [bytes_scanned EXCEPT ![r] = 0]
    /\ issued' = [issued EXCEPT ![r] = 0]
    /\ used' = IF f > used THEN f ELSE used
    /\ UNCHANGED <<metadata_cache, lock>>

\* A reader made by a caller other than a stream.  Files are named in the
\* order of their first use.
NewReader(r, f) ==
    /\ f <= used + 1
    /\ Created(r, f)
    /\ UNCHANGED scan

create_reader(r, f) ==
    /\ NewReader(r, f)
    /\ UNCHANGED calls

\* The same, at most MaxCalls times in a behaviour.
create_reader_counted(r, f) ==
    /\ calls < MaxCalls
    /\ NewReader(r, f)
    /\ calls' = calls + 1

(***************************************************************************)
(* get_metadata, the synchronous part: the cache_slot closure.             *)
(***************************************************************************)
\* The owner of the reader calls get_metadata: the call runs up to the lock
\* of the table.
get_metadata(r) ==
    /\ rd[r].pc = "created"
    /\ rd' = [rd EXCEPT ![r].pc = "calling"]
    /\ UNCHANGED <<metadata_cache, lock, bytes_scanned, issued, used, calls>>
    /\ UNCHANGED scan

\* METADATA_CACHE.get_or_init(..).lock()
LockTable(r) ==
    /\ rd[r].pc = "calling"
    /\ lock = 0
    /\ lock' = r
    /\ rd' = [rd EXCEPT ![r].pc = "locked"]
    /\ UNCHANGED <<metadata_cache, bytes_scanned, issued, used, calls>>
    /\ UNCHANGED scan

\* A lookup that compares the newest entry only.
FindSlotNewest(table, loc) ==
    IF Len(table) > 0 /\ table[Len(table)].location = loc THEN Len(table) ELSE 0

\* Index of the first entry whose location is loc, 0 when there is none.
FindSlot(table, loc) ==
    IF \E i \in 1..Len(table) : table[i].location = loc
    THEN CHOOSE i \in 1..Len(table) :
            /\ table[i].location = loc
            /\ \A j \in 1..(i - 1) : table[j].location # loc
    ELSE 0

\* History: another reader that took its cell from the entry reader r is about
\* to hit has finished its get_metadata with a result of this kind.
Completed(r, kind) ==
    \E q \in Readers \ {r} :
        /\ rd[q].location = rd[r].location
        /\ rd[q].live
        /\ rd[q].pc = "done"
        /\ rd[q].result.kind = kind

\* "find existed cache slot": the scan of the table, the lock held.
FindExisted(r) ==
    /\ rd[r].pc = "locked"
    /\ lock = r
    /\ LET i == FindSlot(metadata_cache, rd[r].location) IN
         IF i # 0
         THEN /\ rd' = [rd EXCEPT ![r].pc = "future",
                                  ![r].slot = OnceCellClone(metadata_cache[i].slot),
                                  ![r].live = TRUE,
                                  ![r].hit = TRUE,
                                  ![r].after = Completed(r, "ok"),
                                  ![r].retry = Completed(r, "external")
                                               \/ Completed(r, "general")]
              /\ lock' = 0
         ELSE /\ rd' = [rd EXCEPT ![r].pc = "miss"]
              /\ lock' = lock
    /\ UNCHANGED <<metadata_cache, bytes_scanned, issued, used, calls>>
    /\ UNCHANGED scan

\* A table that is let grow one entry past its size before it evicts.
RemoveEldestOffByOne(table) ==
    IF Len(table) > METADATA_CACHE_SIZE THEN Tail(table) ELSE table

\* A full table that evicts its newest entry.
RemoveNewest(table) ==
    IF Len(table) >= METADATA_CACHE_SIZE
    THEN SubSeq(table, 1, Len(table) - 1)
    ELSE table

\* metadata_cache.remove(0), when the table is full.
RemoveEldest(table) ==
    IF Len(table) >= METADATA_CACHE_SIZE THEN Tail(table) ELSE table

\* The table after the miss of a reader of location loc.
ReserveSlot(table, loc) ==
    Append(RemoveEldest(table),
           [location |-> loc, slot |-> OnceCellClone(EmptyCell)])

Locations(table) == {table[i].location : i \in 1..Len(table)}

\* A miss that keeps the guard of the table's lock in the returned future.
ReserveNewKeepsLock(r) ==
    /\ rd[r].pc = "miss"
    /\ lock = r
    /\ metadata_cache' = ReserveSlot(metadata_cache, rd[r].location)
    /\ rd' = [rd EXCEPT ![r].pc = "future", ![r].slot = EmptyCell, ![r].live = TRUE]
    /\ UNCHANGED <<lock, bytes_scanned, issued, used, calls>>
    /\ UNCHANGED scan

\* A miss whose eviction ends, with an error, the requests that hold a cell of
\* the evicted entry.
ReserveNewAbortsEvicted(r) ==
    /\ rd[r].pc = "miss"
    /\ lock = r
    /\ metadata_cache' = ReserveSlot(metadata_cache, rd[r].location)
    /\ rd' = [q \in Readers |->
                IF q = r
                THEN [rd[q] EXCEPT !.pc = "future", !.slot = EmptyCell, !.live = TRUE]
                ELSE IF rd[q].live /\ rd[q].location \notin Locations(metadata_cache')
                     THEN [rd[q] EXCEPT !.live = FALSE, !.pc = "done",
                                        !.result = [kind |-> "general",
                                                    footer |-> NoFooter]]
                     ELSE rd[q]]
    /\ lock' = 0
    /\ UNCHANGED <<bytes_scanned, issued, used, calls>>
    /\ UNCHANGED scan

\* "reserve a new cache slot": evict, push, return the new cell.
ReserveNew(r) ==
    /\ rd[r].pc = "miss"
    /\ lock = r
    /\ metadata_cache' = ReserveSlot(metadata_cache, rd[r].location)
    /\ rd' = [q \in Readers |->
                IF q = r
                THEN [rd[q] EXCEPT !.pc = "future", !.slot = EmptyCell, !.live = TRUE]
                ELSE IF rd[q].live /\ rd[q].location \notin Locations(metadata_cache')
                     THEN [rd[q] EXCEPT !.live = FALSE]
                     ELSE rd[q]]
    /\ lock' = 0
    /\ UNCHANGED <<bytes_scanned, issued, used, calls>>
    /\ UNCHANGED scan

(***************************************************************************)
(* get_metadata, the future: cache_slot.get_or_try_init(fetch).            *)
(***************************************************************************)
RangeLen(range) == range.end - range.start

\* A counter that is given the end of the range for its length.
BytesScannedAddEnd(cur, range) == cur + range.end

\* inner.metrics.bytes_scanned.add(range.end - range.start)
BytesScannedAdd(cur, range) == cur + (range.end - range.start)

\* The ranges fetch_parquet_metadata asks for, no size hint given.
FooterRange(sz) == [start |-> sz - FOOTER_SIZE, end |-> sz]
MetadataRange(sz, len) == [start |-> sz - len - FOOTER_SIZE, end |-> sz - FOOTER_SIZE]

\* A cell that a failed initialisation leaves set, with no footer.
SlotAfterInitPoisoned(slot, ok, footer) ==
    IF ok THEN [set |-> TRUE, value |-> footer] ELSE [set |-> TRUE, value |-> NoFooter]

\* How the task given to spawn_blocking ends: read_fully returns the bytes
\* ("ok") or an error ("err"), or the task does not return, read_fully having
\* panicked or the runtime having shut down ("panic").
ReadOutcomes == {"ok", "err", "panic"}

\* .await.expect("tokio spawn_blocking error") on a JoinError: the future
\* panics in the task that polls it, and returns nothing.
Panicked(r) ==
    rd' = [rd EXCEPT ![r].pc = "panicked", ![r].last_read = "panic"]

\* What get_or_try_init leaves in the cell.
SlotAfterInit(slot, ok, footer) ==
    IF ok THEN [set |-> TRUE, value |-> footer] ELSE slot

\* The fetch run by reader r ends with kind: "ok", "external" (a failed
\* read_fully) or "general" (a footer that does not decode, a file too short).
Finish(r, kind) ==
    LET cell == SlotAfterInit(rd[r].slot, kind = "ok", Footer(rd[r].location))
    IN rd' = [rd EXCEPT ![r].pc = "done",
                        ![r].fetched = TRUE,
                        ![r].slot = cell,
                        ![r].result = IF kind = "ok"
                                      THEN [kind |-> "ok", footer |-> cell.value]
                                      ELSE [kind |-> kind, footer |-> NoFooter]]

\* The fetch closure: count the range, then hand read_fully to spawn_blocking.
FetchRange(r, range, pc) ==
    /\ rd' = [rd EXCEPT ![r].pc = pc, ![r].fetched = TRUE]
    /\ bytes_scanned' = [bytes_scanned EXCEPT ![r] = BytesScannedAdd(@, range)]
    /\ issued' = [issued EXCEPT ![r] = @ + RangeLen(range)]

\* A future that waits, its cell taken from an entry another request made,
\* for that request to set the cell.
GetOrTryInitWaits(r) ==
    /\ rd[r].pc = "future"
    /\ rd[r].slot.set \/ ~rd[r].hit
    /\ IF rd[r].slot.set
       THEN /\ rd' = [rd EXCEPT ![r].pc = "done",
                                ![r].result = [kind |-> "ok", footer |-> rd[r].slot.value]]
            /\ UNCHANGED <<bytes_scanned, issued>>
       ELSE FetchRange(r, FooterRange(rd[r].size), "read_footer")
    /\ UNCHANGED <<metadata_cache, lock, used, calls>>
    /\ UNCHANGED scan

\* First poll of the future returned by get_metadata.
get_or_try_init(r) ==
    /\ rd[r].pc = "future"
    /\ IF rd[r].slot.set
       THEN /\ rd' = [rd EXCEPT ![r].pc = "done",
                                ![r].result = [kind |-> "ok", footer |-> rd[r].slot.value]]
            /\ UNCHANGED <<bytes_scanned, issued>>
       ELSE IF rd[r].size < FOOTER_SIZE
       THEN /\ Finish(r, "general")
            /\ UNCHANGED <<bytes_scanned, issued>>
       ELSE FetchRange(r, FooterRange(rd[r].size), "read_footer")
    /\ UNCHANGED <<metadata_cache, lock, used, calls>>
    /\ UNCHANGED scan

\* The blocking read of the footer's 8 bytes ends.
read_footer_done(r, outcome) ==
    /\ rd[r].pc = "read_footer"
    /\ LET len == MetadataLen(rd[r].location)
           cur == [rd EXCEPT ![r].last_read = outcome]
       IN
       IF outcome = "panic"
       THEN /\ Panicked(r)
            /\ UNCHANGED <<bytes_scanned, issued>>
       ELSE IF outcome = "err"
       THEN /\ rd' = [cur EXCEPT ![r].pc = "done",
                                 ![r].result = [kind |-> "external", footer |-> NoFooter],
                                 ![r].slot = SlotAfterInit(rd[r].slot, FALSE, NoFooter)]
            /\ UNCHANGED <<bytes_scanned, issued>>
       ELSE IF CorruptFooter(rd[r].location) \/ rd[r].size < len + FOOTER_SIZE
       THEN /\ rd' = [cur EXCEPT ![r].pc = "done",
                                 ![r].result = [kind |-> "general", footer |-> NoFooter],
                                 ![r].slot = SlotAfterInit(rd[r].slot, FALSE, NoFooter)]
            /\ UNCHANGED <<bytes_scanned, issued>>
       ELSE /\ rd' = [cur EXCEPT ![r].pc = "read_meta"]
            /\ bytes_scanned' = [bytes_scanned EXCEPT
                     ![r] = BytesScannedAdd(@, MetadataRange(rd[r].size, len))]
            /\ issued' = [issued EXCEPT
                     ![r] = @ + RangeLen(MetadataRange(rd[r].size, len))]
    /\ UNCHANGED <<metadata_cache, lock, used, calls>>
    /\ UNCHANGED scan

\* The blocking read of the metadata bytes ends.
read_meta_done(r, outcome) ==
    /\ rd[r].pc = "read_meta"
    /\ LET cell == SlotAfterInit(rd[r].slot, outcome = "ok", Footer(rd[r].location))
       IN IF outcome = "panic"
          THEN Panicked(r)
          ELSE rd' = [rd EXCEPT
                  ![r].pc = "done",
                  ![r].last_read = outcome,
                  ![r].slot = cell,
                  ![r].result = IF outcome = "ok"
                                THEN [kind |-> "ok", footer |-> cell.value]
                                ELSE [kind |-> "external", footer |-> NoFooter]]
    /\ UNCHANGED <<metadata_cache, lock, bytes_scanned, issued, used, calls>>
    /\ UNCHANGED scan

(***************************************************************************)
(* get_bytes                                                               *)
(***************************************************************************)
\* The call: the range is counted and the future is built, not yet polled.
GetBytesCall(r, range) ==
    /\ rd[r].pc = "done"
    /\ rd[r].result.kind = "ok"
    /\ rd' = [rd EXCEPT ![r].pc = "get_bytes", ![r].bytes_result = "none",
                        ![r].last_read = "none"]
    /\ bytes_scanned' = [bytes_scanned EXCEPT ![r] = BytesScannedAdd(@, range)]
    /\ issued' = [issued EXCEPT ![r] = @ + RangeLen(range)]
    /\ UNCHANGED <<metadata_cache, lock, used>>

\* The call by a caller other than a stream, at most MaxReads calls in a
\* behaviour.
get_bytes(r, range) ==
    /\ calls < MaxReads
    /\ calls' = calls + 1
    /\ GetBytesCall(r, range)
    /\ UNCHANGED scan

\* First poll of the future: tokio::task::spawn_blocking(read_fully(range)).
spawn_blocking(r) ==
    /\ rd[r].pc = "get_bytes"
    /\ rd' = [rd EXCEPT ![r].pc = "blocking"]
    /\ UNCHANGED <<metadata_cache, lock, bytes_scanned, issued, used, calls>>
    /\ UNCHANGED scan

\* A reader that submits the read again when read_fully fails.
ReadFullyRetried(r, outcome) ==
    /\ rd[r].pc = "blocking"
    /\ IF outcome = "panic"
       THEN Panicked(r)
       ELSE rd' = [rd EXCEPT ![r].pc = IF outcome = "ok" THEN "done" ELSE "get_bytes",
                             ![r].last_read = outcome,
                             ![r].bytes_result = IF outcome = "ok" THEN "ok" ELSE "none"]
    /\ UNCHANGED <<metadata_cache, lock, bytes_scanned, issued, used, calls>>
    /\ UNCHANGED scan

\* The blocking task ends: the bytes are returned, or the error of
\* read_fully mapped to ParquetError::External, or the future panics.
read_fully_done(r, outcome) ==
    /\ rd[r].pc = "blocking"
    /\ IF outcome = "panic"
       THEN rd' = [rd EXCEPT ![r].pc = "panicked", ![r].last_read = "panic",
                             ![r].bytes_result = "panic"]
       ELSE rd' = [rd EXCEPT ![r].pc = "done",
                             ![r].last_read = outcome,
                             ![r].bytes_result = IF outcome = "ok" THEN "ok"
                                                 ELSE "external"]
    /\ UNCHANGED <<metadata_cache, lock, bytes_scanned, issued, used, calls>>
    /\ UNCHANGED scan

(***************************************************************************)
(* The end of a reader.                                                    *)
(***************************************************************************)
\* The reader is dropped with whatever future of it is pending; the table is
\* not touched, and the counter of the reader is no longer followed.
Dropped(r) ==
    /\ rd' = [rd EXCEPT ![r] = NoReader]
    /\ bytes_scanned' = [bytes_scanned EXCEPT ![r] = 0]
    /\ issued' = [issued EXCEPT ![r] = 0]
    /\ UNCHANGED <<metadata_cache, lock, used, calls>>

\* The same, by a caller other than a stream, no call on the reader under
\* way: after its last call returned or its future was dropped, or with the
\* task that panicked.  A reader that was never called is not followed to
\* its drop, which touches nothing but the reader.
drop_reader(r) ==
    /\ \/ rd[r].pc \in {"done", "panicked"}
       \/ rd[r].pc = "created" /\ rd[r].drops > 0
    /\ Dropped(r)
    /\ UNCHANGED scan

\* The reader whose pending future was dropped: the future of get_metadata
\* owned its cell, that of get_bytes nothing; the reader itself was only
\* borrowed and is as it was before the call, its counters included.
AfterDrop(reader) ==
    IF reader.pc \in {"get_bytes", "blocking"}
    THEN [reader EXCEPT !.pc = "done", !.bytes_result = "none",
                        !.drops = @ + 1]
    ELSE [NoReader EXCEPT !.pc = "created", !.location = reader.location,
                          !.size = reader.size, !.drops = reader.drops + 1]

\* The pending future is dropped by a caller other than a stream: no
\* counter changes, a read in flight is left to end unobserved, and the
\* reader can be used again.  At most MaxDrops drops for a reader.
cancel(r) ==
    /\ rd[r].pc \in {"future", "read_footer", "read_meta", "get_bytes", "blocking"}
    /\ rd[r].drops < MaxDrops
    /\ rd' = [rd EXCEPT ![r] = AfterDrop(rd[r])]
    /\ UNCHANGED <<metadata_cache, lock, bytes_scanned, issued, used, calls>>
    /\ UNCHANGED scan

(***************************************************************************)
(* ParquetExec::new                                                        *)
(***************************************************************************)
\* What can be built of the predicate handed to new: there is none; a
\* pruning predicate is built of it; one is built and is always true;
\* PruningPredicate::try_new returns an error.
PredicateKinds == {"none", "prunable", "always_true", "unsupported"}

\* A pruning predicate that is kept though it is always true.
PruningPredicateUnfiltered(kind) ==
    IF kind \in {"prunable", "always_true"} THEN "Some" ELSE "None"

\* predicate.and_then(try_new ..).filter(|p| !p.always_true())
PruningPredicateOf(kind) ==
    IF kind = "prunable" THEN "Some" ELSE "None"

\* A counter that also counts the predicate discarded as always true.
PredicateCreationErrorsOnNone(count, kind) ==
    IF kind \in {"unsupported", "always_true"} THEN count + 1 ELSE count

\* predicate_creation_errors.add(1) in the Err arm of try_new
PredicateCreationErrors(count, kind) ==
    IF kind = "unsupported" THEN count + 1 ELSE count

\* predicate.as_ref().map(PagePruningAccessPlanFilter::new)
PagePruningPredicateOf(kind) ==
    IF kind = "none" THEN "None" ELSE "Some"

\* The files of a scan, and the file groups made of them: every file is in the
\* group of one partition; the files of a group are in the order of their
\* names.
ScanFiles == 1..NumScanFiles
GroupOf(assign, p) ==
    LET fs == {f \in ScanFiles : p \in assign[f]}
        RECURSIVE Sorted(_)
        Sorted(S) == IF S = {} THEN <<>>
                     ELSE LET m == CHOOSE x \in S : \A y \in S : x <= y
                          IN <<m>> \o Sorted(S \ {m})
    IN Sorted(fs)
FileGroups == {[p \in Partitions |-> GroupOf(assign, p)] :
                 assign \in [ScanFiles -> {{p} : p \in Partitions}]}

\* The file groups of a scan some files of which are split by byte ranges:
\* such a file is in the groups of several partitions.
SplitFileGroups == {[p \in Partitions |-> GroupOf(assign, p)] :
                      assign \in [ScanFiles -> (SUBSET Partitions) \ {{}}]}

\* base_config.project(): the statistics of the projection, here the number
\* of files of every file group.
ProjectStatistics(groups) == [p \in DOMAIN groups |-> Len(groups[p])]

new(groups, kind) ==
    /\ phase = "start"
    /\ phase' = "constructed"
    /\ file_groups' = groups
    /\ predicate' = kind
    /\ pruning_predicate' = PruningPredicateOf(kind)
    /\ num_predicate_creation_errors' =
          PredicateCreationErrors(num_predicate_creation_errors, kind)
    /\ page_pruning_predicate' = PagePruningPredicateOf(kind)
    /\ props' = 0
    /\ projected_statistics' = ProjectStatistics(groups)
    /\ UNCHANGED <<ignore_corrupted, resolved, part, statistics_result>>
    /\ UNCHANGED readers

(***************************************************************************)
(* ParquetExec::properties                                                 *)
(***************************************************************************)
\* A partitioning that counts the files of the scan, not its file groups.
PropertiesCountsFiles ==
    /\ phase = "constructed"
    /\ props' = IF props = 0 THEN NumScanFiles ELSE props
    /\ UNCHANGED <<phase, file_groups, predicate, pruning_predicate,
                   page_pruning_predicate, num_predicate_creation_errors,
                   ignore_corrupted, resolved, part>>
    /\ UNCHANGED <<projected_statistics, statistics_result>>
    /\ UNCHANGED readers

\* props.get_or_init(|| .. UnknownPartitioning(file_groups.len()) ..); the
\* cell holds 0 while it is not set.
properties ==
    /\ phase = "constructed"
    /\ props' = IF props = 0 THEN Len(file_groups) ELSE props
    /\ UNCHANGED <<phase, file_groups, predicate, pruning_predicate,
                   page_pruning_predicate, num_predicate_creation_errors,
                   ignore_corrupted, resolved, part>>
    /\ UNCHANGED <<projected_statistics, statistics_result>>
    /\ UNCHANGED readers

(***************************************************************************)
(* ParquetExec::execute                                                    *)
(***************************************************************************)
\* A FileStream that is left with its default OnError.
OnErrorDefault(ignore) == "Fail"

\* if conf::IGNORE_CORRUPTED_FILES.value()? { with_on_error(OnError::Skip) }
OnErrorPolicy(ignore) == IF ignore THEN "Skip" ELSE "Fail"

\* execute(partition_index) returns a stream ("ok"), or the error of the
\* JNI call that makes the resource id ("jni_error"), or, the resource
\* resolved, the error of one of the conf reads that follow ("conf_error").
ExecuteOutcomes == {"ok", "jni_error", "conf_error"}

\* The streams of a partition that have ended, one way or another.
Ended == {"none", "completed", "failed", "cancelled", "panicked", "jni_error",
          "conf_error"}

\* execute may be called any number of times for a partition, and every call
\* that gets to it calls JniBridge.getResource and builds an FsProvider, a
\* reader factory, an opener and a FileStream of its own.  Followed here are
\* the calls made for a partition no stream of which is still polled, at
\* most MaxExecutes of them getting to the resource.
execute(p, outcome) ==
    /\ phase = "constructed"
    /\ part[p].st \in Ended
    /\ IF outcome = "jni_error"
       THEN /\ part' = [part EXCEPT ![p] = [NoPartition EXCEPT !.st = "jni_error"]]
            /\ UNCHANGED resolved
       ELSE /\ resolved < MaxExecutes
            /\ resolved' = resolved + 1
            /\ part' = [part EXCEPT
                  ![p] = IF outcome = "conf_error"
                         THEN [NoPartition EXCEPT !.st = "conf_error"]
                         ELSE [NoPartition EXCEPT
                                 !.st = "streaming",
                                 !.on_error = OnErrorPolicy(ignore_corrupted)]]
    /\ UNCHANGED <<phase, file_groups, predicate, pruning_predicate,
                   page_pruning_predicate, num_predicate_creation_errors, props,
                   ignore_corrupted>>
    /\ UNCHANGED <<projected_statistics, statistics_result>>
    /\ UNCHANGED readers

(***************************************************************************)
(* ParquetExec::statistics                                                 *)
(***************************************************************************)
\* Statistics recomputed of what the partitions have read so far.
StatisticsRecomputed ==
    /\ phase = "constructed"
    /\ statistics_result' = [p \in Partitions |-> part[p].idx]
    /\ UNCHANGED <<phase, file_groups, predicate, pruning_predicate,
                   page_pruning_predicate, num_predicate_creation_errors, props,
                   ignore_corrupted, resolved, part, projected_statistics>>
    /\ UNCHANGED readers

\* Ok(self.projected_statistics.clone())
statistics ==
    /\ phase = "constructed"
    /\ statistics_result' = projected_statistics
    /\ UNCHANGED <<phase, file_groups, predicate, pruning_predicate,
                   page_pruning_predicate, num_predicate_creation_errors, props,
                   ignore_corrupted, resolved, part, projected_statistics>>
    /\ UNCHANGED readers

(***************************************************************************)
(* The stream of a partition: execute_parquet_scan pulling the FileStream. *)
(***************************************************************************)
\* A file no footer can be read of.
Malformed(f) == FileSize(f) < FOOTER_SIZE \/ CorruptFooter(f)

\* The batches of file f, in the order of its row groups.
BatchesOf(f) == [i \in 1..BatchesPerFile |-> <<f, i>>]

\* All the batches of the well-formed files of a group, in order.
RECURSIVE AllBatches(_)
AllBatches(group) ==
    IF group = <<>> THEN <<>>
    ELSE (IF Malformed(Head(group)) THEN <<>> ELSE BatchesOf(Head(group)))
         \o AllBatches(Tail(group))

\* A stream that goes on to the next file after an error, whatever its OnError.
AfterErrorContinues(s) ==
    [s EXCEPT !.idx = @ + 1, !.pos = 0, !.fstate = "Idle", !.hit = TRUE]

\* What the FileStream does of an error, by its OnError.
AfterError(s) ==
    IF s.on_error = "Skip"
    THEN [s EXCEPT !.idx = @ + 1, !.pos = 0, !.fstate = "Idle", !.hit = TRUE]
    ELSE [s EXCEPT !.st = "failed", !.hit = TRUE]

\* The reader of the stream of partition p: the opener gives the factory the
\* index of the partition, and a stream has one file open at a time.
ReaderOf(p) == p

\* The range of the i-th row group of a file, as the stream asks for it.
RowGroupRange(i) == [start |-> i - 1, end |-> i]

\* A stream whose task has panicked.
AfterPanic(s) == [s EXCEPT !.st = "panicked"]

\* stream.next() of an idle FileStream: the end of the group, or the opener
\* is called on the next file: it has the factory create the reader of the
\* file and returns the future that opens it, which calls get_metadata.
open_file(p) ==
    /\ part[p].st = "streaming"
    /\ part[p].fstate = "Idle"
    /\ part[p].batch = NoBatch
    /\ LET s == part[p]
           group == file_groups[p]
       IN IF s.idx = Len(group)
          THEN /\ part' = [part EXCEPT ![p].st = "completed"]
               /\ UNCHANGED readers
          ELSE /\ part' = [part EXCEPT ![p].fstate = "Open"]
               /\ Created(ReaderOf(p), group[s.idx + 1])
               /\ UNCHANGED calls
    /\ UNCHANGED <<phase, file_groups, predicate, pruning_predicate,
                   page_pruning_predicate, num_predicate_creation_errors, props,
                   ignore_corrupted, resolved>>
    /\ UNCHANGED <<projected_statistics, statistics_result>>

\* The future that opens the file resolves: get_metadata has returned the
\* footer and the scan of the file begins, or it has returned an error, or
\* its read has panicked; the reader goes with a file that is given up.
file_opened(p) ==
    /\ part[p].st = "streaming"
    /\ part[p].fstate = "Open"
    /\ rd[ReaderOf(p)].pc \in {"done", "panicked"}
    /\ LET s == part[p]
           reader == rd[ReaderOf(p)]
       IN IF reader.pc = "done" /\ reader.result.kind = "ok"
          THEN /\ part' = [part EXCEPT ![p].fstate = "Scan", ![p].pos = 0]
               /\ UNCHANGED readers
          ELSE /\ part' = [part EXCEPT ![p] = IF reader.pc = "panicked"
                                              THEN AfterPanic(s)
                                              ELSE AfterError(s)]
               /\ Dropped(ReaderOf(p))
    /\ UNCHANGED <<phase, file_groups, predicate, pruning_predicate,
                   page_pruning_predicate, num_predicate_creation_errors, props,
                   ignore_corrupted, resolved>>
    /\ UNCHANGED <<projected_statistics, statistics_result>>

\* stream.next() of a FileStream scanning a file: the file ends and its
\* reader is dropped, or get_bytes is called for the next row group.
next_batch(p) ==
    /\ part[p].st = "streaming"
    /\ part[p].fstate = "Scan"
    /\ part[p].batch = NoBatch
    /\ LET s == part[p]
           batches == BatchesOf(file_groups[p][s.idx + 1])
       IN IF s.pos = Len(batches)
          THEN /\ part' = [part EXCEPT ![p].idx = @ + 1, ![p].pos = 0,
                                       ![p].fstate = "Idle"]
               /\ Dropped(ReaderOf(p))
          ELSE /\ part' = [part EXCEPT ![p].fstate = "Read"]
               /\ GetBytesCall(ReaderOf(p), RowGroupRange(s.pos + 1))
               /\ UNCHANGED calls
    /\ UNCHANGED <<phase, file_groups, predicate, pruning_predicate,
                   page_pruning_predicate, num_predicate_creation_errors, props,
                   ignore_corrupted, resolved>>
    /\ UNCHANGED <<projected_statistics, statistics_result>>

\* The future of get_bytes resolves: the batch of the row group is pulled,
\* not yet sent, or the read has failed, or it has panicked.
batch_read(p) ==
    /\ part[p].st = "streaming"
    /\ part[p].fstate = "Read"
    /\ rd[ReaderOf(p)].pc \in {"done", "panicked"}
    /\ LET s == part[p]
           reader == rd[ReaderOf(p)]
           batches == BatchesOf(file_groups[p][s.idx + 1])
       IN IF reader.pc = "done" /\ reader.bytes_result = "ok"
          THEN /\ part' = [part EXCEPT ![p].fstate = "Scan", ![p].pos = @ + 1,
                                       ![p].batch = batches[s.pos + 1]]
               /\ UNCHANGED readers
          ELSE /\ part' = [part EXCEPT ![p] = IF reader.pc = "panicked"
                                              THEN AfterPanic(s)
                                              ELSE AfterError(s)]
               /\ Dropped(ReaderOf(p))
    /\ UNCHANGED <<phase, file_groups, predicate, pruning_predicate,
                   page_pruning_predicate, num_predicate_creation_errors, props,
                   ignore_corrupted, resolved>>
    /\ UNCHANGED <<projected_statistics, statistics_result>>

\* sender.send(Ok(batch)).await completes: the batch pulled is delivered to
\* the output.
send(p) ==
    /\ part[p].st = "streaming"
    /\ part[p].batch # NoBatch
    /\ part' = [part EXCEPT ![p].out = Append(@, part[p].batch),
                            ![p].batch = NoBatch]
    /\ UNCHANGED <<phase, file_groups, predicate, pruning_predicate,
                   page_pruning_predicate, num_predicate_creation_errors, props,
                   ignore_corrupted, resolved>>
    /\ UNCHANGED <<projected_statistics, statistics_result>>
    /\ UNCHANGED readers

\* A drop of the stream of a partition that also drops the readers the other
\* partitions have open on the same file, as if they shared its fetch.
CancelStreamShared(p) ==
    /\ part[p].st = "streaming"
    /\ rd[ReaderOf(p)].pc \notin {"calling", "locked", "miss"}
    /\ part' = [part EXCEPT ![p].st = "cancelled"]
    /\ rd' = [r \in Readers |->
                IF r = ReaderOf(p)
                   \/ (/\ rd[ReaderOf(p)].pc # "none"
                       /\ rd[r].location = rd[ReaderOf(p)].location
                       /\ rd[r].pc \in {"future", "read_footer", "read_meta",
                                        "get_bytes", "blocking"})
                THEN NoReader ELSE rd[r]]
    /\ bytes_scanned' = [bytes_scanned EXCEPT ![ReaderOf(p)] = 0]
    /\ issued' = [issued EXCEPT ![ReaderOf(p)] = 0]
    /\ UNCHANGED <<metadata_cache, lock, used, calls>>
    /\ UNCHANGED <<phase, file_groups, predicate, pruning_predicate,
                   page_pruning_predicate, num_predicate_creation_errors, props,
                   ignore_corrupted, resolved>>
    /\ UNCHANGED <<projected_statistics, statistics_result>>

\* The consumer drops the stream of the partition, between two polls of it:
\* a batch that was pulled and not yet sent is not delivered, and the reader
\* of the file that is open is dropped with its pending future.
cancel_stream(p) ==
    /\ part[p].st = "streaming"
    /\ rd[ReaderOf(p)].pc \notin {"calling", "locked", "miss"}
    /\ part' = [part EXCEPT ![p].st = "cancelled"]
    /\ Dropped(ReaderOf(p))
    /\ UNCHANGED <<phase, file_groups, predicate, pruning_predicate,
                   page_pruning_predicate, num_predicate_creation_errors, props,
                   ignore_corrupted, resolved>>
    /\ UNCHANGED <<projected_statistics, statistics_result>>

(***************************************************************************)
(* Concurrent readers of a few files: the table never fills.               *)
(***************************************************************************)
Next ==
    \/ \E r \in Readers, f \in Files : create_reader(r, f)
    \/ \E r \in Readers : get_metadata(r)
    \/ \E r \in Readers : LockTable(r)
    \/ \E r \in Readers : FindExisted(r)
    \/ \E r \in Readers : ReserveNew(r)
    \/ \E r \in Readers : get_or_try_init(r)
    \/ \E r \in Readers, outcome \in ReadOutcomes : read_footer_done(r, outcome)
    \/ \E r \in Readers, outcome \in ReadOutcomes : read_meta_done(r, outcome)
    \/ \E r \in Readers : drop_reader(r)
    \/ \E r \in Readers : cancel(r)

Spec == Init /\ [][Next]_vars

\* The same readers, scheduled: the lock of the table is handed to every
\* request that keeps asking for it, a future that is not dropped is polled,
\* and a blocking read returns.
Fairness ==
    \A r \in Readers :
        /\ SF_vars(LockTable(r))
        /\ WF_vars(FindExisted(r))
        /\ WF_vars(ReserveNew(r))
        /\ WF_vars(get_or_try_init(r))
        /\ WF_vars(\E outcome \in ReadOutcomes : read_footer_done(r, outcome))
        /\ WF_vars(\E outcome \in ReadOutcomes : read_meta_done(r, outcome))

SpecLive == Init /\ [][Next]_vars /\ Fairness

(***************************************************************************)
(* Readers of more files than the table holds, MaxCalls readers in all.    *)
(***************************************************************************)
NextEvict ==
    \/ \E r \in Readers, f \in ManyFiles : create_reader_counted(r, f)
    \/ \E r \in Readers : get_metadata(r)
    \/ \E r \in Readers : LockTable(r)
    \/ \E r \in Readers : FindExisted(r)
    \/ \E r \in Readers : ReserveNew(r)
    \/ \E r \in Readers : get_or_try_init(r)
    \/ \E r \in Readers, outcome \in ReadOutcomes : read_footer_done(r, outcome)
    \/ \E r \in Readers, outcome \in ReadOutcomes : read_meta_done(r, outcome)
    \/ \E r \in Readers : drop_reader(r)
    \/ \E r \in Readers : cancel(r)

SpecEvict == Init /\ [][NextEvict]_vars

(***************************************************************************)
(* Readers that go on to read byte ranges.                                 *)
(***************************************************************************)
NextReads ==
    \/ \E r \in RangeReaders, f \in Files : create_reader(r, f)
    \/ \E r \in RangeReaders : get_metadata(r)
    \/ \E r \in RangeReaders : LockTable(r)
    \/ \E r \in RangeReaders : FindExisted(r)
    \/ \E r \in RangeReaders : ReserveNew(r)
    \/ \E r \in RangeReaders : get_or_try_init(r)
    \/ \E r \in RangeReaders, outcome \in ReadOutcomes : read_footer_done(r, outcome)
    \/ \E r \in RangeReaders, outcome \in ReadOutcomes : read_meta_done(r, outcome)
    \/ \E r \in RangeReaders, range \in Ranges : get_bytes(r, range)
    \/ \E r \in RangeReaders : spawn_blocking(r)
    \/ \E r \in RangeReaders, outcome \in ReadOutcomes : read_fully_done(r, outcome)
    \/ \E r \in RangeReaders : drop_reader(r)
    \/ \E r \in RangeReaders : cancel(r)

SpecReads == Init /\ [][NextReads]_vars

(***************************************************************************)
(* The plan: construction, properties, execute.                            *)
(***************************************************************************)
InitPlan ==
    /\ InitReaders
    /\ InitScan
    /\ ignore_corrupted \in BOOLEAN

NextPlan ==
    \/ \E groups \in FileGroups, kind \in PredicateKinds : new(groups, kind)
    \/ properties
    \/ \E p \in Partitions, outcome \in ExecuteOutcomes : execute(p, outcome)

SpecPlan == InitPlan /\ [][NextPlan]_vars

(***************************************************************************)
(* The streams of the partitions of a plan.                                *)
(***************************************************************************)
NextStream ==
    \/ \E groups \in FileGroups : new(groups, "prunable")
    \/ \E p \in Partitions : execute(p, "ok")
    \/ \E p \in Partitions : open_file(p)
    \/ \E p \in Partitions : get_metadata(ReaderOf(p))
    \/ \E p \in Partitions : LockTable(ReaderOf(p))
    \/ \E p \in Partitions : FindExisted(ReaderOf(p))
    \/ \E p \in Partitions : ReserveNew(ReaderOf(p))
    \/ \E p \in Partitions : get_or_try_init(ReaderOf(p))
    \/ \E p \in Partitions, outcome \in ReadOutcomes :
          read_footer_done(ReaderOf(p), outcome)
    \/ \E p \in Partitions, outcome \in ReadOutcomes :
          read_meta_done(ReaderOf(p), outcome)
    \/ \E p \in Partitions : file_opened(p)
    \/ \E p \in Partitions : next_batch(p)
    \/ \E p \in Partitions : spawn_blocking(ReaderOf(p))
    \/ \E p \in Partitions, outcome \in ReadOutcomes :
          read_fully_done(ReaderOf(p), outcome)
    \/ \E p \in Partitions : batch_read(p)
    \/ \E p \in Partitions : send(p)
    \/ \E p \in Partitions : cancel_stream(p)
    \/ statistics

SpecStream == InitPlan /\ [][NextStream]_vars

(***************************************************************************)
(* Partitions that read a file in common, some of them dropped.            *)
(***************************************************************************)
\* The file groups in which two partitions have a file that can be read in
\* common.
SharedGroups ==
    {groups \in SplitFileGroups :
        \E p, q \in Partitions :
            /\ p # q
            /\ \E i \in 1..Len(groups[p]), j \in 1..Len(groups[q]) :
                  groups[p][i] = groups[q][j] /\ ~Malformed(groups[p][i])}

NextCancel ==
    \/ \E groups \in SharedGroups : new(groups, "prunable")
    \/ \E p \in Partitions : execute(p, "ok")
    \/ \E p \in Partitions : open_file(p)
    \/ \E p \in Partitions : get_metadata(ReaderOf(p))
    \/ \E p \in Partitions : LockTable(ReaderOf(p))
    \/ \E p \in Partitions : FindExisted(ReaderOf(p))
    \/ \E p \in Partitions : ReserveNew(ReaderOf(p))
    \/ \E p \in Partitions : get_or_try_init(ReaderOf(p))
    \/ \E p \in Partitions, outcome \in ReadOutcomes :
          read_footer_done(ReaderOf(p), outcome)
    \/ \E p \in Partitions, outcome \in ReadOutcomes :
          read_meta_done(ReaderOf(p), outcome)
    \/ \E p \in Partitions : file_opened(p)
    \/ \E p \in Partitions : next_batch(p)
    \/ \E p \in Partitions : spawn_blocking(ReaderOf(p))
    \/ \E p \in Partitions, outcome \in ReadOutcomes :
          read_fully_done(ReaderOf(p), outcome)
    \/ \E p \in Partitions : batch_read(p)
    \/ \E p \in Partitions : send(p)
    \/ \E p \in Partitions : cancel_stream(p)

\* A poll of the stream of partition p, or of the future it awaits, that
\* does not wait for the lock of the table: the stream is one task, so that
\* at most one of these steps can be taken at a time.
Poll(p) ==
    \/ open_file(p)
    \/ get_metadata(ReaderOf(p))
    \/ FindExisted(ReaderOf(p))
    \/ ReserveNew(ReaderOf(p))
    \/ get_or_try_init(ReaderOf(p))
    \/ \E outcome \in ReadOutcomes : read_footer_done(ReaderOf(p), outcome)
    \/ \E outcome \in ReadOutcomes : read_meta_done(ReaderOf(p), outcome)
    \/ file_opened(p)
    \/ next_batch(p)
    \/ spawn_blocking(ReaderOf(p))
    \/ \E outcome \in ReadOutcomes : read_fully_done(ReaderOf(p), outcome)
    \/ batch_read(p)
    \/ send(p)

\* The streams, scheduled: a stream that is not dropped is polled by its
\* consumer, which takes the batches sent, and a blocking read returns; the
\* lock of the table is handed to every request that keeps asking for it.
StreamFairness ==
    \A p \in Partitions :
        /\ WF_vars(Poll(p))
        /\ SF_vars(LockTable(ReaderOf(p)))

SpecCancel == InitPlan /\ [][NextCancel]_vars /\ StreamFairness

(***************************************************************************)
(* The properties.                                                         *)
(***************************************************************************)
\* Reader r runs, or has run to a footer, the fetch of its own get_metadata.
Fetching(r) ==
    /\ rd[r].fetched
    /\ \/ rd[r].pc \in {"read_footer", "read_meta"}
       \/ rd[r].pc = "done" /\ rd[r].result.kind = "ok"

\* The readers r and q took their cells from the same entry of the table,
\* which is still there.
SameEntry(r, q) ==
    /\ r # q
    /\ rd[r].live
    /\ rd[q].live
    /\ rd[r].location = rd[q].location

\* C1: single flight.  Of the requests for one file location whose table entry
\* has not been evicted, no two run the footer fetch: the fetch of an entry is
\* in flight, or has produced its footer, for at most one of them.
C1_SingleFlight ==
    \A r, q \in Readers : SameEntry(r, q) => ~(Fetching(r) /\ Fetching(q))

\* C2: cache hit reuse.  A request that finds the entry of its location in the
\* table after another request of that entry has completed with a footer
\* issues no storage read: it does not run the fetch.
C2_CacheHitReuse ==
    \A r \in Readers : rd[r].after => ~rd[r].fetched

\* C3: cache bounding.  The table never holds more than METADATA_CACHE_SIZE
\* entries, whatever the readers and the order of their steps.
C3_CacheBounded ==
    Len(metadata_cache) <= METADATA_CACHE_SIZE

\* The table is full and the entry of a reader that holds its result has been
\* evicted from it.
C3_Witness ==
    /\ Len(metadata_cache) = METADATA_CACHE_SIZE
    /\ \E r \in Readers : rd[r].pc = "done" /\ ~rd[r].live

\* C4: insertion-order eviction.  A step that changes a full table removes its
\* first (earliest inserted) entry and nothing else, and appends one entry;
\* a step in which a reader finds its entry (a hit) leaves the table as it
\* is, its order included.
C4_FifoEviction ==
    [][ /\ (/\ Len(metadata_cache) = METADATA_CACHE_SIZE
            /\ metadata_cache' # metadata_cache)
           => /\ Len(metadata_cache') = METADATA_CACHE_SIZE
              /\ SubSeq(metadata_cache', 1, METADATA_CACHE_SIZE - 1) = Tail(metadata_cache)
              /\ metadata_cache'[METADATA_CACHE_SIZE].location
                    \notin Locations(metadata_cache)
        /\ \A r \in Readers :
              (rd[r].pc = "locked" /\ rd'[r].pc = "future")
                 => metadata_cache' = metadata_cache
      ]_vars

\* A reader found its entry in the table (a hit) and the entry has since been
\* evicted, from a table whose five entries were all inserted after it.
C4_Witness ==
    /\ Len(metadata_cache) = METADATA_CACHE_SIZE
    /\ \E r \in Readers : rd[r].hit /\ ~rd[r].live

\* The slot of the table entry of location loc is not set (or there is none).
TableSlotUnset(loc) ==
    \A i \in 1..Len(metadata_cache) :
        metadata_cache[i].location = loc => ~metadata_cache[i].slot.set

\* C5: no poisoning on failure.  A request whose fetch failed holds the error
\* and leaves its cell and the cell of the table entry unset; a request that
\* finds the entry after such a failure holds an unset cell until it has run
\* the fetch itself.
C5_NoPoisoning ==
    \A r \in Readers :
        /\ (rd[r].pc = "done" /\ rd[r].result.kind \in {"external", "general"})
              => /\ ~rd[r].slot.set
                 /\ TableSlotUnset(rd[r].location)
                 /\ rd[r].result.footer = NoFooter
        /\ (rd[r].retry /\ rd[r].pc = "future") => ~rd[r].slot.set
        /\ (rd[r].retry /\ rd[r].pc = "done") => rd[r].fetched

\* A request made after a failed one for the same location has run the fetch
\* again and holds the footer.
C5_Witness ==
    \E r \in Readers :
        /\ rd[r].retry
        /\ rd[r].pc = "done"
        /\ rd[r].fetched
        /\ rd[r].result = [kind |-> "ok", footer |-> Footer(rd[r].location)]

\* C6: byte accounting.  The bytes_scanned counter of a reader equals the sum
\* of the lengths of the ranges requested through it so far (get_bytes calls
\* and the reads of a footer fetch), in every state: while a read is only
\* requested, while it runs, and after it has succeeded, failed or been
\* dropped.
C6_ByteAccounting ==
    \A r \in Readers : bytes_scanned[r] = issued[r]

\* A future of the reader was dropped and a get_bytes of a range that is not
\* empty has failed, and the ranges of both are counted.
C6_Witness ==
    \E r \in Readers :
        /\ rd[r].pc = "done"
        /\ rd[r].drops > 0
        /\ rd[r].bytes_result = "external"
        /\ bytes_scanned[r] > FOOTER_SIZE + MetadataLen(rd[r].location)

\* C8: the storage resource of a scan is resolved once, whatever the number
\* of partitions executed: JniBridge.getResource is called at most once for
\* one ParquetExec.
C8_ResolvedOncePerScan == resolved <= 1

C10_FailOpen ==
    phase = "constructed"
       => /\ num_predicate_creation_errors
                = (IF predicate = "unsupported" THEN 1 ELSE 0)
          /\ predicate = "unsupported" => pruning_predicate = "None"

\* A plan was constructed of a predicate no pruning predicate can be built of.
C10_Witness ==
    /\ phase = "constructed"
    /\ predicate = "unsupported"
    /\ num_predicate_creation_errors = 1
    /\ pruning_predicate = "None"

\* C11, as claimed: after new, the row-group predicate and the page-index
\* predicate are each Some only if a predicate was supplied, its construction
\* succeeded and it is not always true.
C11_PredicateSetAsClaimed ==
    phase = "constructed"
       => /\ pruning_predicate = "Some" => predicate = "prunable"
          /\ page_pruning_predicate = "Some" => predicate = "prunable"

\* C11, as amended: after new, the row-group predicate is Some exactly when a
\* predicate was supplied, its construction succeeded and it is not always
\* true; the page-index predicate is Some exactly when a predicate was
\* supplied; and no step taken after new (properties, execute of any
\* partition) changes either of them.
C11_PredicateSetPopulation ==
    [][ /\ phase' = "constructed"
           => /\ pruning_predicate' = "Some" <=> predicate' = "prunable"
              /\ page_pruning_predicate' = "Some" <=> predicate' # "none"
        /\ phase = "constructed"
           => UNCHANGED <<predicate, pruning_predicate, page_pruning_predicate>>
      ]_vars

\* A plan of a predicate that is always true has no row-group predicate and
\* a page-index predicate, and one of its partitions has been executed.
C11_Witness ==
    /\ phase = "constructed"
    /\ predicate = "always_true"
    /\ pruning_predicate = "None"
    /\ page_pruning_predicate = "Some"
    /\ \E p \in Partitions : part[p].st = "streaming"

\* The future of reader r is pending: created by get_metadata, not yet done.
Pending(r) == rd[r].pc \in {"future", "read_footer", "read_meta"}

\* The file that partition p has open, or was about to open.
OpenFileOf(p) == file_groups[p][part[p].idx + 1]

\* The step drops the stream of partition p.
Cancels(p) == part[p].st = "streaming" /\ part'[p].st = "cancelled"

\* The reader q has returned an error.
ReturnedError(q) ==
    /\ rd[q].pc = "done"
    /\ \/ rd[q].result.kind \in {"external", "general"}
       \/ rd[q].bytes_result = "external"

\* C12: partition isolation under cancellation.  The step that drops the
\* stream of a partition drops its reader with the pending request, and
\* changes neither the table, nor its lock, nor the stream, the output, the
\* reader or the counters of any other partition, those that have the same
\* file open included; while the partition stays cancelled it has no reader,
\* issues no read and sends no batch.  The outcome of every partition is that
\* of its own reads, whatever was dropped beside it: it meets an error only
\* when its own reader has returned one, a footer it is given is that of its
\* own file, and when it has run to its end without an error it has
\* delivered all the batches of its files.  And a partition that is streaming
\* when another was dropped does not wait for it: it ends, unless it is
\* dropped itself.
C12_PartitionIsolation ==
    /\ [][ \A p \in Partitions :
            /\ Cancels(p)
                  => /\ rd'[ReaderOf(p)] = NoReader
                     /\ metadata_cache' = metadata_cache
                     /\ lock' = lock
                     /\ \A q \in Partitions \ {p} :
                           /\ part'[q] = part[q]
                           /\ rd'[ReaderOf(q)] = rd[ReaderOf(q)]
                           /\ bytes_scanned'[ReaderOf(q)] = bytes_scanned[ReaderOf(q)]
                           /\ issued'[ReaderOf(q)] = issued[ReaderOf(q)]
            /\ (part[p].st = "cancelled" /\ part'[p].st = "cancelled")
                  => /\ part'[p] = part[p]
                     /\ rd'[ReaderOf(p)] = NoReader
                     /\ issued'[ReaderOf(p)] = issued[ReaderOf(p)]
                     /\ bytes_scanned'[ReaderOf(p)] = bytes_scanned[ReaderOf(p)]
            /\ (part[p].st = "streaming" /\ ~part[p].hit /\ part'[p].hit)
                  => ReturnedError(ReaderOf(p))
            /\ (rd'[ReaderOf(p)].pc = "done" /\ rd'[ReaderOf(p)].result.kind = "ok")
                  => rd'[ReaderOf(p)].result.footer
                        = Footer(rd'[ReaderOf(p)].location)
            /\ (part'[p].st = "completed" /\ ~part'[p].hit)
                  => part'[p].out = AllBatches(file_groups'[p])
        ]_vars
    /\ \A p, q \in Partitions :
          (p # q /\ part[p].st = "cancelled" /\ part[q].st = "streaming")
             ~> (part[q].st # "streaming")

\* The stream of a partition was dropped while it was opening a file, and
\* another partition, which has the same file in its group, has run to its
\* end and delivered all its batches, those of that file among them.
C12_Witness ==
    /\ phase = "constructed"
    /\ \E p, q \in Partitions :
          /\ p # q
          /\ part[p].st = "cancelled"
          /\ part[p].fstate = "Open"
          /\ \E i \in 1..Len(file_groups[q]) : file_groups[q][i] = OpenFileOf(p)
          /\ ~Malformed(OpenFileOf(p))
          /\ part[q].st = "completed"
          /\ ~part[q].hit
          /\ part[q].out # <<>>
          /\ part[q].out = AllBatches(file_groups[q])

\* C13: fixed partitioning.  The partition count that properties() computes
\* is the number of file groups of the plan; once computed it is the same on
\* every later call and after every execute.
C13_FixedPartitioning ==
    [][ /\ phase' = "constructed" => props' \in {0, Len(file_groups')}
        /\ props # 0 => props' = props
      ]_vars

\* properties() has answered for a plan with a file group that is empty, and a
\* partition of the plan has been executed.
C13_Witness ==
    /\ phase = "constructed"
    /\ props = Len(file_groups)
    /\ props = NumPartitions
    /\ \E p \in Partitions : file_groups[p] = <<>>
    /\ \E p \in Partitions : part[p].st = "streaming"

\* C14: table lock discipline.  The lock of the table is held by a request
\* exactly while it is in the lookup or in the evict-and-insert of its
\* get_metadata call; a request whose future is pending, whose read is in
\* flight or that has returned does not hold it.
C14_LockDiscipline ==
    /\ lock \in {0} \cup Readers
    /\ \A r \in Readers : lock = r <=> rd[r].pc \in {"locked", "miss"}

\* While the read of one request is in flight, a request for another location
\* holds the lock of the table.
C14_Witness ==
    \E r, q \in Readers :
        /\ rd[r].pc \in {"read_footer", "read_meta"}
        /\ lock = q
        /\ rd[q].pc = "locked"
        /\ rd[q].location # rd[r].location

\* The footer of the file of reader r can be read and decoded.
WellFormed(r) ==
    /\ ~CorruptFooter(rd[r].location)
    /\ rd[r].size >= MetadataLen(rd[r].location) + FOOTER_SIZE

\* C15: reader error propagation.  Every error read_fully returns, in
\* get_bytes or in the fetch of the footer, ends the request with the External
\* error returned to the caller, and a read is submitted once for a request,
\* never again after it failed: the blocking read
\* of get_bytes only by the first poll of a get_bytes call, the read of the
\* footer only by the first poll of get_metadata, the read of the metadata
\* only after the footer was read, and no step takes a request whose read
\* failed back to a read.  A blocking task that gives no result at all (the
\* runtime could not join it) is no error of the read: the future panics and
\* returns nothing.
C15_ErrorPropagation ==
    [][ \A r \in Readers :
          /\ (rd[r].pc # "get_bytes" /\ rd'[r].pc = "get_bytes")
                 => rd[r].pc = "done" /\ calls' = calls + 1
          /\ (rd[r].pc # "blocking" /\ rd'[r].pc = "blocking")
                 => rd[r].pc = "get_bytes"
          /\ (rd[r].pc # "read_footer" /\ rd'[r].pc = "read_footer")
                 => rd[r].pc = "future"
          /\ (rd[r].pc # "read_meta" /\ rd'[r].pc = "read_meta")
                 => rd[r].pc = "read_footer"
          /\ (rd[r].pc = "blocking" /\ rd'[r] # rd[r] /\ rd'[r].drops = rd[r].drops)
                 => \/ rd'[r].pc = "done" /\ rd'[r].bytes_result \in {"ok", "external"}
                    \/ rd'[r].pc = "panicked"
          /\ rd'[r].last_read = "err"
                 => /\ rd'[r].pc = "done"
                    /\ \/ rd'[r].bytes_result = "external"
                       \/ rd'[r].result = [kind |-> "external", footer |-> NoFooter]
          /\ rd'[r].last_read = "panic" <=> rd'[r].pc = "panicked"
          /\ (rd[r].pc = "read_footer" /\ rd'[r].pc = "done" /\ WellFormed(r))
                 => rd'[r].result = [kind |-> "external", footer |-> NoFooter]
          /\ (rd[r].pc = "read_meta" /\ rd'[r].pc = "done")
                 => rd'[r].result.kind \in {"ok", "external"}
      ]_vars

\* The one get_bytes call made so far has returned the External error of its
\* read.
C15_Witness ==
    \E r \in Readers :
        /\ calls = 1
        /\ rd[r].pc = "done"
        /\ rd[r].last_read = "err"
        /\ rd[r].bytes_result = "external"

\* Sequence s is the beginning of sequence t.
IsPrefix(s, t) == Len(s) <= Len(t) /\ SubSeq(t, 1, Len(s)) = s

\* The batches of out are in the order of the files of group and, within a
\* file, in the order of its row groups from the first on, none sent twice
\* and none left out before one that was sent.
InFileOrder(out, group) ==
    /\ \A i \in 1..Len(out) :
          /\ \E k \in 1..Len(group) : group[k] = out[i][1]
          /\ out[i][2] = 1
              \/ (i > 1 /\ out[i - 1] = <<out[i][1], out[i][2] - 1>>)
    /\ \A i, j \in 1..Len(out) :
          i < j => \/ out[i][1] < out[j][1]
                   \/ out[i][1] = out[j][1] /\ out[i][2] < out[j][2]

\* The step is a call of execute for partition p, which had no stream or one
\* that had ended: a new stream begins, nothing sent yet.
Executed(p) ==
    /\ part[p].st \in Ended
    /\ part'[p].st \in {"streaming", "jni_error", "conf_error"}
    /\ part'[p].idx = 0
    /\ part'[p].pos = 0
    /\ part'[p].batch = NoBatch

\* C16: order-preserving forwarding.  The output of a partition is only ever
\* extended, by one batch at a time; its batches are in the order of the files
\* and row groups of the partition, none duplicated or reordered; under the
\* default policy the output is a beginning of the batches of the partition,
\* every batch pulled from the stream is sent or is the one being sent, that
\* one being the next in order, and the first error ends the partition in
\* failure; a partition that failed, or whose task panicked, sends nothing
\* more; only a new call of execute for the partition begins a new output.
C16_OrderPreserving ==
    [][ \A p \in Partitions :
          /\ \/ part'[p].out = part[p].out
             \/ /\ Len(part'[p].out) = Len(part[p].out) + 1
                /\ IsPrefix(part[p].out, part'[p].out)
             \/ Executed(p) /\ part'[p].out = <<>>
          /\ part'[p].st # "none"
                => /\ InFileOrder(part'[p].out, file_groups'[p])
                   /\ part'[p].on_error = "Fail"
                         => /\ IsPrefix(part'[p].out, AllBatches(file_groups'[p]))
                            /\ part'[p].hit => part'[p].st = "failed"
                            /\ Len(part'[p].out)
                                  + (IF part'[p].batch = NoBatch THEN 0 ELSE 1)
                                  = part'[p].idx * BatchesPerFile + part'[p].pos
                            /\ part'[p].batch # NoBatch
                                  => IsPrefix(Append(part'[p].out, part'[p].batch),
                                              AllBatches(file_groups'[p]))
          /\ part[p].st \in {"failed", "panicked"}
                => part'[p] = part[p] \/ Executed(p)
      ]_vars

\* A partition failed in the middle of a file, after it had sent a batch.
C16_Witness ==
    /\ phase = "constructed"
    /\ \E p \in Partitions :
          /\ part[p].st = "failed"
          /\ part[p].out # <<>>
          /\ part[p].out # AllBatches(file_groups[p])
          /\ IsPrefix(part[p].out, AllBatches(file_groups[p]))

\* C17: statistics availability.  The statistics of the plan are those
\* computed of its config by new and do not change afterwards; in every state
\* of the scan statistics() returns them, and the call resolves no resource,
\* reads nothing and leaves the partitions and the table as they are.
C17_StatisticsAvailable ==
    [][ /\ phase' = "constructed"
           => /\ projected_statistics' = ProjectStatistics(file_groups')
              /\ statistics_result' \in {NoStatistics, projected_statistics'}
        /\ phase = "constructed" => projected_statistics' = projected_statistics
        /\ statistics_result' # statistics_result
           => /\ statistics_result' = projected_statistics
              /\ UNCHANGED <<resolved, part, bytes_scanned, issued, metadata_cache,
                             lock, rd>>
      ]_vars

\* statistics() has returned the statistics of a plan of which a partition has
\* failed and another was cancelled.
C17_Witness ==
    /\ phase = "constructed"
    /\ statistics_result # NoStatistics
    /\ statistics_result = ProjectStatistics(file_groups)
    /\ \E p, q \in Partitions :
          /\ part[p].st = "failed"
          /\ part[q].st = "cancelled"

\* C18: unique cache keys.  No two entries of the table have the same
\* location, whatever the interleaving of the get_metadata calls and the
\* evictions between them.
C18_UniqueKeys ==
    \A i, j \in 1..Len(metadata_cache) :
        i # j => metadata_cache[i].location # metadata_cache[j].location

\* The table is full and has evicted its first entry, and two requests for
\* one location hold cells of the same entry, one of them by a hit.
C18_Witness ==
    /\ Len(metadata_cache) = METADATA_CACHE_SIZE
    /\ metadata_cache[1].location # 1
    /\ \E r, q \in Readers : SameEntry(r, q) /\ rd[q].hit /\ Pending(r)

\* A future of reader r was dropped, or its fetch has failed: with an error,
\* or by the panic of the task that polled it.
Abandoned(r) ==
    \/ rd[r].drops > 0
    \/ rd[r].pc = "panicked"
    \/ rd[r].pc = "done" /\ rd[r].result.kind \in {"external", "general"}

\* The get_metadata call of reader q is made and has not returned.
InGetMetadata(q) ==
    rd[q].pc \in {"calling", "locked", "miss", "future", "read_footer", "read_meta"}

\* C19: no stuck waiter.  When a request of one reader for a location was
\* dropped or has failed, every request of another reader for that location
\* that is under way, made before or after, eventually ends: it returns (a
\* footer or an error) or its read panics, unless it is dropped itself.
C19_NoStuckWaiter ==
    \A r, q \in Readers : \A k \in 0..MaxDrops :
        (/\ r # q
         /\ Abandoned(r)
         /\ rd[q].location = rd[r].location
         /\ InGetMetadata(q)
         /\ rd[q].drops = k)
           ~> (rd[q].pc \in {"done", "panicked"} \/ rd[q].drops > k)

\* A request was dropped, and another request that found the entry of the same
\* location, no footer fetched for it yet, has run the fetch and returned.
C19_Witness ==
    \E r, q \in Readers :
        /\ r # q
        /\ rd[r].drops > 0
        /\ rd[q].location = rd[r].location
        /\ rd[q].hit
        /\ ~rd[q].after
        /\ rd[q].fetched
        /\ rd[q].pc = "done"

\* C20: eviction does not disturb requests in flight.  The step that evicts
\* the entry of a request leaves the request as it was: its position, its
\* cell and its result; a request whose entry was evicted returns the result
\* of a fetch it ran itself, a footer being that of its own location; a
\* request that finds no entry of its location inserts, as the newest entry,
\* one with an unset cell and holds an unset cell of its own.
C20_EvictionIsolation ==
    [][ \A r \in Readers :
          /\ (rd[r].live /\ ~rd'[r].live /\ rd'[r].pc \notin {"none", "created"})
                 => rd'[r] = [rd[r] EXCEPT !.live = FALSE]
          /\ (rd'[r].pc = "done" /\ ~rd'[r].live)
                 => /\ rd'[r].fetched
                    /\ rd'[r].result.kind = "ok"
                          => rd'[r].result.footer = Footer(rd'[r].location)
          /\ (rd[r].pc = "locked" /\ rd'[r].pc = "miss")
                 => rd[r].location \notin Locations(metadata_cache)
          /\ (rd[r].pc = "miss" /\ rd'[r].pc = "future")
                 => /\ metadata_cache'[Len(metadata_cache')]
                          = [location |-> rd[r].location, slot |-> EmptyCell]
                    /\ ~rd'[r].slot.set
                    /\ ~rd'[r].hit
      ]_vars

\* Two fetches for one location are in flight: that of a request whose entry
\* was evicted, and that of a later request that inserted the entry anew.
C20_Witness ==
    \E r, q \in Readers :
        /\ r # q
        /\ rd[r].location = rd[q].location
        /\ ~rd[r].live
        /\ rd[q].live
        /\ ~rd[q].hit
        /\ rd[r].pc \in {"read_footer", "read_meta"}
        /\ rd[q].pc \in {"read_footer", "read_meta"}
====
